---- MODULE Spec2Model ----
(***************************************************************************)
(* Model of the listening-party module src/src/lp.rs: the shared registry  *)
(* last_pinged (an RwLock around a HashMap from channel to LPInfo), the    *)
(* announcement handler LP::handle_message, the start signal LP::start_lp, *)
(* the play-position resolver LPInfo::now_playing, the status query        *)
(* CurrentLP::run and the formatter display_duration.                      *)
(*                                                                         *)
(* Every await of the source is a step boundary: a handler is a small      *)
(* state machine whose position is its pc.  Tasks are named in the order  *)
(* in which they are received: task 2 handles the message or start signal  *)
(* received after that of task 1.                                          *)
(*                                                                         *)
(* Text is a sequence of tokens.  The token "URL" stands for the literal   *)
(* prefix  https://open.spotify.com/album/  of SPOTIFY_ALBUM_RE (it starts *)
(* with a word character and ends with a non-word character); every other *)
(* token is one character.  An Option is a set with at most one element.   *)
(***************************************************************************)
EXTENDS Integers, Sequences, FiniteSets, TLC

VARIABLES
    last_pinged,  \* LP.last_pinged: the HashMap, a function on the present channels
    writer,       \* holder of the RwLock's write guard: {} or {task}
    readers,      \* holders of the RwLock's read guards
    waiters,      \* the RwLock's queue of tasks waiting for a guard, first in front
    clock,        \* chrono::offset::Utc::now() when it was last read
    task,         \* the handle_message and start_lp tasks
    last_insert,  \* history: per channel, the task whose insert made the record
    last_writer,  \* history: per channel, the task that last wrote the record
    lpinfo,       \* resolver harness: the LPInfo now_playing is called on
    play_state,   \* resolver harness: {} or {the PlayState returned}
    duration,     \* formatter harness: the span display_duration is called on
    display       \* formatter harness: {} or {the string returned}

vars == <<last_pinged, writer, readers, waiters, clock, task, last_insert,
          last_writer, lpinfo, play_state, duration, display>>

\* The variables of the formatter harness
formatter == <<duration, display>>

----------------------------------------------------------------------------
\* Bounds of the model

MaxTasks == 3
MaxTime == 1
MaxTextLen == 5
MaxTracks == 2
MaxDur == 2
MaxClock == 5
MaxSecs == 36061

Tasks == 1..MaxTasks
Channels == {"c1", "c2"}
Times == 0..MaxTime
ResolverTimes == 0..MaxClock
Spans == (0 - MaxSecs)..MaxSecs

----------------------------------------------------------------------------
\* Data model

\* Option<T> as a set
None == {}
Some(x) == {x}
Unwrap(o) == CHOOSE x \in o : TRUE

\* AlbumInfo, reduced to the fields that identify it and its tracks;
\* a track is its duration
AlbumInfo(name, tracks) == [name |-> name, tracks |-> tracks]

\* LPInfo
LPInfo(playlist, started) == [playlist |-> playlist, started |-> started]

\* Roles used for pinging listening parties
LP_ROLES == {"ListeningParty"}
Roles == {"ListeningParty", "Other"}

----------------------------------------------------------------------------
\* SPOTIFY_ALBUM_RE:
\*   \bhttps://open.spotify.com/album/([a-zA-Z0-9]+)(?:\?[a-zA-Z?=&]*)\b
\* over token sequences.  "a" is a letter, "1" a digit, "?" and "=" are
\* punctuation of the query character class, " " is a space.

Alphabet == {"URL", "a", "1", "?", "=", " "}

Alnum(tok) == tok \in {"a", "1"}            \* [a-zA-Z0-9]
QueryChar(tok) == tok \in {"a", "?", "="}   \* [a-zA-Z?=&]
StartsWord(tok) == tok \in {"URL", "a", "1"} \* first character is \w
EndsWord(tok) == tok \in {"a", "1"}          \* last character is \w

\* \b between token i and token i+1 (i = 0: start of text, i = Len: end)
Boundary(text, i) ==
    LET left == i >= 1 /\ EndsWord(text[i])
        right == i < Len(text) /\ StartsWord(text[i + 1])
    IN left # right

\* The ends e of capture group 1 for which the pattern matches from token i:
\* the literal prefix at a word boundary, the alphanumeric run i+1..e, the
\* literal "?", any run of query characters, and a word boundary after it.
\* The query group carries no quantifier: it is required.
MatchEnds(text, i) ==
    IF text[i] = "URL" /\ Boundary(text, i - 1)
    THEN {e \in (i + 1)..(Len(text) - 1) :
            /\ \A j \in (i + 1)..e : Alnum(text[j])
            /\ text[e + 1] = "?"
            /\ \E k \in (e + 1)..Len(text) :
                  /\ \A j \in (e + 2)..k : QueryChar(text[j])
                  /\ Boundary(text, k)}
    ELSE {}

\* Regex::captures(text), reduced to caps[1]: the leftmost match
captures(text) ==
    LET starts == {i \in 1..Len(text) : MatchEnds(text, i) # {}}
    IN IF starts = {}
       THEN None
       ELSE LET i == CHOOSE x \in starts : \A y \in starts : x <= y
                e == CHOOSE x \in MatchEnds(text, i) : TRUE
            IN Some(SubSeq(text, i + 1, e))

\* Mutant of MentionsLPRole: any role mention passes the gate
MentionsAnyRole(mention_roles) == mention_roles # {}

\* msg.mention_roles.iter().any(|role| LP_ROLES.contains(role))
MentionsLPRole(mention_roles) == \E role \in mention_roles : role \in LP_ROLES

\* rspotify::model::AlbumId::from_id succeeds on alphanumeric identifiers
ValidAlbumId(album_id_str) ==
    \A j \in 1..Len(album_id_str) : Alnum(album_id_str[j])

\* What the catalog holds for an album: its track durations
CatalogTracks(album_id) ==
    IF album_id[1] = "a" THEN <<2, 1>> ELSE <<1>>

----------------------------------------------------------------------------
\* The registry's two mutations

\* Mutant of InsertLP: the insert keeps the start of the record it replaces
InsertLPKeepStarted(channels, channel, album) ==
    [c \in DOMAIN channels \cup {channel} |->
        IF c = channel
        THEN LPInfo(album, IF channel \in DOMAIN channels
                           THEN channels[channel].started ELSE None)
        ELSE channels[c]]

\* HashMap::insert(channel, LPInfo { playlist: album, started: None })
InsertLP(channels, channel, album) ==
    [c \in DOMAIN channels \cup {channel} |->
        IF c = channel THEN LPInfo(album, None) ELSE channels[c]]

\* Mutant of AndModifyStarted: or_insert, an absent channel gets a record
AndModifyOrInsert(channels, channel, now) ==
    [c \in DOMAIN channels \cup {channel} |->
        IF c = channel
        THEN LPInfo(IF channel \in DOMAIN channels
                    THEN channels[channel].playlist
                    ELSE AlbumInfo(<<>>, <<>>), Some(now))
        ELSE channels[c]]

\* Mutant of AndModifyStarted: the entry is replaced, not modified
AndModifyReplace(channels, channel, now) ==
    IF channel \in DOMAIN channels
    THEN [channels EXCEPT ![channel] = LPInfo(AlbumInfo(<<>>, <<>>), Some(now))]
    ELSE channels

\* Mutant of AndModifyStarted: a start that is already set is kept
AndModifyIfNotStarted(channels, channel, now) ==
    IF channel \in DOMAIN channels /\ channels[channel].started = None
    THEN [channels EXCEPT ![channel].started = Some(now)]
    ELSE channels

\* Mutant of AndModifyStarted: the closure sets the start on a clone of the
\* record
AndModifyClone(channels, channel, now) == channels

\* channels.entry(channel).and_modify(|lp_info| lp_info.started = Some(now))
AndModifyStarted(channels, channel, now) ==
    IF channel \in DOMAIN channels
    THEN [channels EXCEPT ![channel].started = Some(now)]
    ELSE channels

----------------------------------------------------------------------------
\* PlayState and LPInfo::now_playing

NotStarted == [tag |-> "NotStarted", track |-> 0, span |-> 0]
Finished(ago) == [tag |-> "Finished", track |-> 0, span |-> ago]
Playing(track, position) == [tag |-> "Playing", track |-> track, span |-> position]

RECURSIVE WalkTracksInclusive(_, _, _)
\* Mutant of WalkTracks: a track is still playing when its whole duration
\* has passed
WalkTracksInclusive(tracks, i, remain) ==
    IF i > Len(tracks)
    THEN Finished(remain)
    ELSE IF tracks[i] >= remain
         THEN Playing(i, remain)
         ELSE WalkTracksInclusive(tracks, i + 1, remain - tracks[i])

RECURSIVE WalkTracks(_, _, _)
\* the for loop over self.playlist.tracks, from track i with `remain` left
WalkTracks(tracks, i, remain) ==
    IF i > Len(tracks)
    THEN Finished(remain)
    ELSE IF tracks[i] > remain
         THEN Playing(i, remain)
         ELSE WalkTracks(tracks, i + 1, remain - tracks[i])

\* Mutant of now_playing: a start in the future is not checked for
now_playingUnchecked(lp, now) ==
    IF lp.started = None
    THEN NotStarted
    ELSE WalkTracks(lp.playlist.tracks, 1, now - Unwrap(lp.started))

now_playing(lp, now) ==
    IF lp.started = None
    THEN NotStarted
    ELSE LET started == Unwrap(lp.started)
         IN IF started > now
            THEN NotStarted
            ELSE WalkTracks(lp.playlist.tracks, 1, now - started)

----------------------------------------------------------------------------
\* Tasks

\* A task is idle (not yet received), a handle_message task or a start_lp
\* task.  pc of handle_message: "album" (awaiting client.album), "tracks"
\* (awaiting client.album_track), "lock" (awaiting last_pinged.write()),
\* "insert" (holding the write guard), "done".  pc of start_lp: "lock",
\* "modify" (holding the write guard), "done".
\* calls counts the calls of fetch_album_info, id is its argument, name and
\* tracks are what the two catalog calls have returned so far, failed names
\* the step of fetch_album_info that returned an error ("no" if none did),
\* now is the local `now` of start_lp, and hit records the entry and_modify
\* found: the task whose insert made it, or None if there was no entry.
IdleTask ==
    [kind |-> "idle", pc |-> "idle", chan |-> "c1", text |-> <<>>,
     roles |-> {}, calls |-> 0, id |-> None, name |-> None, tracks |-> None,
     failed |-> "no", outcome |-> "none", now |-> 0, hit |-> None,
     state |-> None, msg |-> None, seen |-> 0]

\* Tasks are received in the order of their names
NextToReceive(t) ==
    /\ task[t].kind = "idle"
    /\ t > 1 => task[t - 1].kind # "idle"

\* The messages and the track lists the environment may produce
AllTexts == UNION {[1..n -> Alphabet] : n \in 0..MaxTextLen}
SampleTexts == {<<"URL", "a", "?", "a">>, <<"URL", "1", "?", "a">>}
SampleRoles == {{"ListeningParty"}}
Durations == (0 - 1)..MaxDur
TrackLists == UNION {[1..n -> Durations] : n \in 0..MaxTracks}

----------------------------------------------------------------------------
\* display_duration.  Spans are whole seconds; a string is the sequence of
\* its characters.

\* Rust's integer division truncates toward zero
Quot(a, b) == IF a < 0 THEN 0 - ((0 - a) \div b) ELSE a \div b

\* Rust's remainder has the sign of the dividend
Rem(a, b) == a - b * Quot(a, b)

Digit(d) == <<"0", "1", "2", "3", "4", "5", "6", "7", "8", "9">>[d + 1]

RECURSIVE Digits(_)
Digits(n) ==
    IF n < 10 THEN <<Digit(n)>> ELSE Append(Digits(n \div 10), Digit(n % 10))

\* format!("{}", n)
to_string(n) == IF n < 0 THEN <<"-">> \o Digits(0 - n) ELSE Digits(n)

\* format!("{:0>2}", n): shorter than two characters, filled with '0' on
\* the left; nothing is cut off
Pad2(n) == IF Len(to_string(n)) < 2 THEN <<"0">> \o to_string(n) ELSE to_string(n)

display_durationAllMinutes(span) ==
    LET allsecs == span
        seconds == Rem(allsecs, 60)
        minutes == Quot(allsecs, 60)
        hours   == Quot(allsecs, 3600)
    IN  IF hours > 0
        THEN to_string(hours) \o <<":">> \o Pad2(minutes) \o <<":">> \o Pad2(seconds)
        ELSE Pad2(minutes) \o <<":">> \o Pad2(seconds)

display_duration(span) ==
    LET allsecs == span
        seconds == Rem(allsecs, 60)
        minutes == Rem(Quot(allsecs, 60), 60)
        hours   == Quot(allsecs, 3600)
    IN  IF hours > 0
        THEN to_string(hours) \o <<":">> \o Pad2(minutes) \o <<":">> \o Pad2(seconds)
        ELSE Pad2(minutes) \o <<":">> \o Pad2(seconds)

\* Formatter harness: display_duration is called on `duration`
DisplayDuration ==
    /\ display = None
    /\ display' = Some(display_duration(duration))
    /\ UNCHANGED <<last_pinged, writer, readers, waiters, clock, task,
                   last_insert, last_writer, lpinfo, play_state, duration>>

----------------------------------------------------------------------------
\* serenity::prelude::RwLock (tokio's): one writer or any number of readers;
\* tasks that cannot get their guard at once wait in a first-in first-out
\* queue, and while the queue is not empty only its first task is served.

CanWrite(t) ==
    /\ writer = None
    /\ readers = {}
    /\ waiters # <<>> => Head(waiters) = t

\* Mutant of CanRead: a read guard is granted whenever no writer holds the
\* lock, whoever is waiting
CanReadBarging(t) == writer = None

CanRead(t) ==
    /\ writer = None
    /\ waiters # <<>> => Head(waiters) = t

\* The queue once task t has its guard
Dequeue(t) == SelectSeq(waiters, LAMBDA w : w # t)

----------------------------------------------------------------------------
\* LP::handle_message

\* The message is received and handled up to the first await: the role
\* gate, the regular expression, and fetch_album_info up to client.album.
MsgRecv(t, text, roles, chan) ==
    /\ NextToReceive(t)
    /\ LET m == [task[t] EXCEPT !.kind = "msg", !.text = text,
                                !.roles = roles, !.chan = chan]
           caps == captures(text)
       IN task' = [task EXCEPT ![t] =
            IF ~MentionsLPRole(roles)
            THEN [m EXCEPT !.pc = "done", !.outcome = "ignored"]
            ELSE IF caps = None
            THEN [m EXCEPT !.pc = "done", !.outcome = "nomatch"]
            ELSE IF ~ValidAlbumId(Unwrap(caps))
            THEN [m EXCEPT !.pc = "done", !.outcome = "error",
                           !.failed = "id", !.calls = 1, !.id = caps]
            ELSE [m EXCEPT !.pc = "album", !.calls = 1, !.id = caps]]
    /\ UNCHANGED <<readers, waiters>> /\ UNCHANGED formatter
    /\ UNCHANGED <<last_pinged, writer, clock, last_insert, last_writer,
                   lpinfo, play_state>>

\* Mutant of AlbumReturn: the write guard is taken as soon as the album is
\* known, before its tracks are listed
AlbumReturnLocking(t, ok) ==
    /\ task[t].kind = "msg"
    /\ task[t].pc = "album"
    /\ ok => CanWrite(t)
    /\ writer' = IF ok THEN Some(t) ELSE writer
    /\ task' = [task EXCEPT ![t] =
            IF ok
            THEN [@ EXCEPT !.pc = "tracks", !.name = task[t].id]
            ELSE [@ EXCEPT !.pc = "done", !.outcome = "error",
                           !.failed = "album"]]
    /\ UNCHANGED <<readers, waiters>> /\ UNCHANGED formatter
    /\ UNCHANGED <<last_pinged, clock, last_insert, last_writer,
                   lpinfo, play_state>>

\* client.album(album_id) returns
AlbumReturn(t, ok) ==
    /\ task[t].kind = "msg"
    /\ task[t].pc = "album"
    /\ task' = [task EXCEPT ![t] =
            IF ok
            THEN [@ EXCEPT !.pc = "tracks", !.name = task[t].id]
            ELSE [@ EXCEPT !.pc = "done", !.outcome = "error",
                           !.failed = "album"]]
    /\ UNCHANGED <<readers, waiters>> /\ UNCHANGED formatter
    /\ UNCHANGED <<last_pinged, writer, clock, last_insert, last_writer,
                   lpinfo, play_state>>

\* Mutant of TracksReturn: a failed track listing is stored as no tracks
TracksReturnPartial(t, ok) ==
    /\ task[t].kind = "msg"
    /\ task[t].pc = "tracks"
    /\ task' = [task EXCEPT ![t] =
            IF ok
            THEN [@ EXCEPT !.pc = "lock",
                           !.tracks = Some(CatalogTracks(Unwrap(task[t].id)))]
            ELSE [@ EXCEPT !.pc = "lock", !.failed = "tracks",
                           !.tracks = Some(<<>>)]]
    /\ UNCHANGED <<readers, waiters>> /\ UNCHANGED formatter
    /\ UNCHANGED <<last_pinged, writer, clock, last_insert, last_writer,
                   lpinfo, play_state>>

\* client.album_track(album_id) has been collected, or has failed
TracksReturn(t, ok) ==
    /\ task[t].kind = "msg"
    /\ task[t].pc = "tracks"
    /\ task' = [task EXCEPT ![t] =
            IF ok
            THEN [@ EXCEPT !.pc = "lock",
                           !.tracks = Some(CatalogTracks(Unwrap(task[t].id)))]
            ELSE [@ EXCEPT !.pc = "done", !.outcome = "error",
                           !.failed = "tracks", !.name = None]]
    /\ UNCHANGED <<readers, waiters>> /\ UNCHANGED formatter
    /\ UNCHANGED <<last_pinged, writer, clock, last_insert, last_writer,
                   lpinfo, play_state>>

\* self.last_pinged.write().await
MsgAcquire(t) ==
    /\ task[t].kind = "msg"
    /\ task[t].pc = "lock"
    /\ CanWrite(t)
    /\ waiters' = Dequeue(t)
    /\ writer' = Some(t)
    /\ task' = [task EXCEPT ![t].pc = "insert"]
    /\ UNCHANGED readers /\ UNCHANGED formatter
    /\ UNCHANGED <<last_pinged, clock, last_insert, last_writer, lpinfo,
                   play_state>>

\* (*channels).insert(msg.channel_id, LPInfo { .. }); the guard is dropped.
\* The handler reads no clock; its `now` records the latest clock reading
\* at the time of the insert, which is no later than the insert.
MsgInsert(t) ==
    /\ task[t].kind = "msg"
    /\ task[t].pc = "insert"
    /\ writer = Some(t)
    /\ last_pinged' = InsertLP(last_pinged, task[t].chan,
            AlbumInfo(Unwrap(task[t].name), Unwrap(task[t].tracks)))
    /\ writer' = None
    /\ task' = [task EXCEPT ![t].pc = "done", ![t].outcome = "written",
                            ![t].now = clock]
    /\ last_insert' = [last_insert EXCEPT ![task[t].chan] = Some(t)]
    /\ last_writer' = [last_writer EXCEPT ![task[t].chan] = Some(t)]
    /\ UNCHANGED <<readers, waiters>> /\ UNCHANGED formatter
    /\ UNCHANGED <<clock, lpinfo, play_state>>

----------------------------------------------------------------------------
\* LP::start_lp

\* Mutant of StartRecv: the instant comes from a clock that runs ahead of
\* the one the status query reads
StartRecvAhead(t, chan, now) ==
    /\ NextToReceive(t)
    /\ now >= clock
    /\ task' = [task EXCEPT ![t] =
            [@ EXCEPT !.kind = "start", !.pc = "lock", !.chan = chan,
                      !.now = now]]
    /\ UNCHANGED <<readers, waiters>> /\ UNCHANGED formatter
    /\ UNCHANGED <<last_pinged, writer, clock, last_insert, last_writer,
                   lpinfo, play_state>>

\* let now = chrono::offset::Utc::now();
\* The clock is read here: the time that has passed since it was last read
\* passes in this step, so `now` is any time from the last reading on.
StartRecv(t, chan, now) ==
    /\ NextToReceive(t)
    /\ now >= clock
    /\ clock' = now
    /\ task' = [task EXCEPT ![t] =
            [@ EXCEPT !.kind = "start", !.pc = "lock", !.chan = chan,
                      !.now = now]]
    /\ UNCHANGED <<readers, waiters>> /\ UNCHANGED formatter
    /\ UNCHANGED <<last_pinged, writer, last_insert, last_writer, lpinfo,
                   play_state>>

\* self.last_pinged.write().await
StartAcquire(t) ==
    /\ task[t].kind = "start"
    /\ task[t].pc = "lock"
    /\ CanWrite(t)
    /\ waiters' = Dequeue(t)
    /\ writer' = Some(t)
    /\ task' = [task EXCEPT ![t].pc = "modify"]
    /\ UNCHANGED readers /\ UNCHANGED formatter
    /\ UNCHANGED <<last_pinged, clock, last_insert, last_writer, lpinfo,
                   play_state>>

\* channels.entry(*channel).and_modify(..); the guard is dropped
StartModify(t) ==
    /\ task[t].kind = "start"
    /\ task[t].pc = "modify"
    /\ writer = Some(t)
    /\ last_pinged' = AndModifyStarted(last_pinged, task[t].chan, task[t].now)
    /\ writer' = None
    /\ task' = [task EXCEPT ![t].pc = "done",
                            ![t].hit = IF task[t].chan \in DOMAIN last_pinged
                                       THEN last_insert[task[t].chan]
                                       ELSE None]
    /\ last_writer' = [last_writer EXCEPT ![task[t].chan] =
            IF task[t].chan \in DOMAIN last_pinged THEN Some(t) ELSE @]
    /\ UNCHANGED <<readers, waiters>> /\ UNCHANGED formatter
    /\ UNCHANGED <<clock, last_insert, lpinfo, play_state>>

----------------------------------------------------------------------------
\* CurrentLP::run

\* Whether now_playing reads the clock: only for a record that has started
ReadsClock(lp) == lp # None /\ Unwrap(lp).started # None

\* lpinfo.playlist.tracks.iter().map(|t| t.duration).sum()
RECURSIVE playlist_duration(_)
playlist_duration(tracks) ==
    IF tracks = <<>> THEN 0 ELSE Head(tracks) + playlist_duration(Tail(tracks))

\* The text for a PlayState: the words the format string opens with, and
\* its arguments.  A track's number is its place in the playlist.
now_playing_str(lp, ps) ==
    IF ps.tag = "NotStarted"
    THEN [text |-> "Not yet started.", number |-> 0, first |-> <<>>,
          second |-> <<>>]
    ELSE IF ps.tag = "Finished"
    THEN [text |-> "LP ended", number |-> 0,
          first |-> display_duration(ps.span), second |-> <<>>]
    ELSE [text |-> "Playing Track",
          number |-> ps.track,
          first |-> display_duration(ps.span),
          second |-> display_duration(lp.playlist.tracks[ps.track])]

\* The message of the reply, for the channel's record (or none) at `now`
run_msg(lp, now) ==
    IF lp = None
    THEN [text |-> "There is no listening party at the moment.",
          name |-> <<>>, total |-> <<>>,
          now_playing |-> [text |-> "", number |-> 0, first |-> <<>>,
                           second |-> <<>>]]
    ELSE [text |-> "Ongoing Listening Party",
          name |-> Unwrap(lp).playlist.name,
          total |-> display_duration(
                        playlist_duration(Unwrap(lp).playlist.tracks)),
          now_playing |-> now_playing_str(Unwrap(lp),
                                          now_playing(Unwrap(lp), now))]

\* How many times the registry has been written: the inserts and the start
\* signals that are through
Writes ==
    Cardinality({t \in Tasks : \/ task[t].outcome = "written"
                               \/ task[t].kind = "start" /\ task[t].pc = "done"})

\* lps.get(&channel)
Get(channels, chan) ==
    IF chan \in DOMAIN channels THEN Some(channels[chan]) ELSE None

\* The command is received: let channel = interaction.channel_id
QueryRecv(t, chan) ==
    /\ NextToReceive(t)
    /\ task' = [task EXCEPT ![t] =
            [@ EXCEPT !.kind = "query", !.pc = "read", !.chan = chan]]
    /\ UNCHANGED <<readers, waiters>> /\ UNCHANGED formatter
    /\ UNCHANGED <<last_pinged, writer, clock, last_insert, last_writer,
                   lpinfo, play_state>>

\* Mutant of QueryRead: the lookup is entry(channel).or_insert(..), which
\* leaves an empty record behind for a channel that had none
QueryReadInserting(t, now) ==
    /\ task[t].kind = "query"
    /\ task[t].pc = "read"
    /\ CanRead(t)
    /\ now >= clock
    /\ readers' = readers \cup {t}
    /\ waiters' = Dequeue(t)
    /\ LET lp == Get(last_pinged, task[t].chan)
       IN /\ ~ReadsClock(lp) => now = clock
          /\ clock' = now
          /\ task' = [task EXCEPT ![t] =
                [@ EXCEPT !.pc = "respond", !.now = now, !.seen = Writes,
                          !.state = IF lp = None THEN None
                                    ELSE Some(now_playing(Unwrap(lp), now)),
                          !.msg = Some(run_msg(lp, now))]]
          /\ last_pinged' = IF lp = None
                            THEN InsertLP(last_pinged, task[t].chan,
                                          AlbumInfo(<<>>, <<>>))
                            ELSE last_pinged
    /\ UNCHANGED formatter
    /\ UNCHANGED <<writer, last_insert, last_writer, lpinfo, play_state>>

\* lpmod.last_pinged.read().await is granted; the record is looked up and
\* the message is built, now_playing reading the clock if the record has
\* started.  `lps`, the read guard, stays alive.
QueryRead(t, now) ==
    /\ task[t].kind = "query"
    /\ task[t].pc = "read"
    /\ CanRead(t)
    /\ now >= clock
    /\ readers' = readers \cup {t}
    /\ waiters' = Dequeue(t)
    /\ LET lp == Get(last_pinged, task[t].chan)
       IN /\ ~ReadsClock(lp) => now = clock
          /\ clock' = now
          /\ task' = [task EXCEPT ![t] =
                [@ EXCEPT !.pc = "respond", !.now = now, !.seen = Writes,
                          !.state = IF lp = None THEN None
                                    ELSE Some(now_playing(Unwrap(lp), now)),
                          !.msg = Some(run_msg(lp, now))]]
    /\ UNCHANGED formatter
    /\ UNCHANGED <<last_pinged, writer, last_insert, last_writer, lpinfo,
                   play_state>>

\* interaction.create_response(..).await returns, with or without an
\* error; run returns and `lps` is dropped
QueryRespond(t, ok) ==
    /\ task[t].kind = "query"
    /\ task[t].pc = "respond"
    /\ readers' = readers \ {t}
    /\ task' = [task EXCEPT ![t] =
            [@ EXCEPT !.pc = "done",
                      !.outcome = IF ok THEN "replied" ELSE "error"]]
    /\ UNCHANGED waiters /\ UNCHANGED formatter
    /\ UNCHANGED <<last_pinged, writer, clock, last_insert, last_writer,
                   lpinfo, play_state>>

\* A task whose guard cannot be granted at once joins the lock's queue
LockWait(t) ==
    /\ IF task[t].pc = "lock" THEN ~CanWrite(t)
       ELSE IF task[t].pc = "read" THEN ~CanRead(t)
       ELSE FALSE
    /\ \A i \in 1..Len(waiters) : waiters[i] # t
    /\ waiters' = Append(waiters, t)
    /\ UNCHANGED readers /\ UNCHANGED formatter
    /\ UNCHANGED <<last_pinged, writer, clock, task, last_insert, last_writer,
                   lpinfo, play_state>>

\* The next command of the channel is received: its task takes the place
\* of a status query that is through
QueryNext(t) ==
    /\ task[t].kind = "query"
    /\ task[t].pc = "done"
    /\ task' = [task EXCEPT ![t] =
            [IdleTask EXCEPT !.kind = "query", !.pc = "read",
                             !.chan = task[t].chan]]
    /\ UNCHANGED <<readers, waiters>> /\ UNCHANGED formatter
    /\ UNCHANGED <<last_pinged, writer, clock, last_insert, last_writer,
                   lpinfo, play_state>>

----------------------------------------------------------------------------
\* The resolver on its own: now_playing applied to an LPInfo at time `clock`

NowPlaying ==
    /\ play_state = None
    /\ play_state' = Some(now_playing(lpinfo, clock))
    /\ UNCHANGED <<readers, waiters>> /\ UNCHANGED formatter
    /\ UNCHANGED <<last_pinged, writer, clock, task, last_insert, last_writer,
                   lpinfo>>

----------------------------------------------------------------------------
\* Specifications

InitTasks ==
    /\ last_pinged = [c \in {} |-> None]
    /\ writer = None
    /\ readers = {}
    /\ waiters = <<>>
    /\ task = [t \in Tasks |-> IdleTask]
    /\ last_insert = [c \in Channels |-> None]
    /\ last_writer = [c \in Channels |-> None]

\* Channel identifiers are opaque: the channel of the first event received
\* is called c1.
EventChannels ==
    IF \A t \in Tasks : task[t].kind = "idle" THEN {"c1"} ELSE Channels

\* The registry under concurrent announcements and start signals
Init ==
    /\ InitTasks
    /\ clock = 0
    /\ lpinfo = LPInfo(AlbumInfo(<<>>, <<>>), None)
    /\ play_state = None
    /\ duration = 0
    /\ display = None

Next ==
    \/ \E t \in Tasks, text \in SampleTexts, roles \in SampleRoles,
          chan \in EventChannels : MsgRecv(t, text, roles, chan)
    \/ \E t \in Tasks, ok \in BOOLEAN : AlbumReturn(t, ok)
    \/ \E t \in Tasks, ok \in BOOLEAN : TracksReturn(t, ok)
    \/ \E t \in Tasks : MsgAcquire(t)
    \/ \E t \in Tasks : MsgInsert(t)
    \/ \E t \in Tasks, chan \in EventChannels, now \in Times :
          StartRecv(t, chan, now)
    \/ \E t \in Tasks : StartAcquire(t)
    \/ \E t \in Tasks : StartModify(t)

Spec == Init /\ [][Next]_vars

\* One announcement handler on every message text up to MaxTextLen tokens
\* and every set of role mentions
NextDetect ==
    \/ /\ task[1].kind = "idle"
       /\ \E text \in AllTexts, roles \in SUBSET Roles, chan \in Channels :
             MsgRecv(1, text, roles, chan)
    \/ \E ok \in BOOLEAN : AlbumReturn(1, ok)
    \/ \E ok \in BOOLEAN : TracksReturn(1, ok)
    \/ MsgAcquire(1)
    \/ MsgInsert(1)

SpecDetect == Init /\ [][NextDetect]_vars

\* The resolver on every LPInfo within the bounds, at every time
InitResolver ==
    /\ InitTasks
    /\ clock \in ResolverTimes
    /\ lpinfo \in {LPInfo(AlbumInfo(<<>>, tl), st) :
                     tl \in TrackLists,
                     st \in {None} \cup {Some(x) : x \in ResolverTimes}}
    /\ play_state = None
    /\ duration = 0
    /\ display = None

NextResolver == NowPlaying

SpecResolver == InitResolver /\ [][NextResolver]_vars

\* Announcements, start signals and status queries together.  PartyTexts are
\* an album link with a query and the same link without one.
PartyTexts == {<<"URL", "a", "1", "?", "a">>, <<"URL", "a", "1">>}

NextQuery ==
    \/ \E t \in Tasks, text \in PartyTexts, roles \in SampleRoles,
          chan \in EventChannels : MsgRecv(t, text, roles, chan)
    \/ \E t \in Tasks, ok \in BOOLEAN : AlbumReturn(t, ok)
    \/ \E t \in Tasks, ok \in BOOLEAN : TracksReturn(t, ok)
    \/ \E t \in Tasks : MsgAcquire(t)
    \/ \E t \in Tasks : MsgInsert(t)
    \/ \E t \in Tasks, chan \in EventChannels, now \in Times :
          StartRecv(t, chan, now)
    \/ \E t \in Tasks : StartAcquire(t)
    \/ \E t \in Tasks : StartModify(t)
    \/ \E t \in Tasks, chan \in EventChannels : QueryRecv(t, chan)
    \/ \E t \in Tasks, now \in Times : QueryRead(t, now)
    \/ \E t \in Tasks, ok \in BOOLEAN : QueryRespond(t, ok)

SpecQuery == Init /\ [][NextQuery]_vars

\* One status query on a channel whose record is any LPInfo within the
\* bounds (the catalog's durations are signed), started at or before the
\* current time or not at all
InitStatus ==
    /\ writer = None
    /\ readers = {}
    /\ waiters = <<>>
    /\ task = [t \in Tasks |-> IdleTask]
    /\ last_insert = [c \in Channels |-> None]
    /\ last_writer = [c \in Channels |-> None]
    /\ clock \in ResolverTimes
    /\ last_pinged \in
            {[c \in {"c1"} |-> LPInfo(AlbumInfo(<<"a">>, tl), st)] :
                tl \in TrackLists,
                st \in {None} \cup {Some(x) : x \in 0..clock}}
    /\ lpinfo = LPInfo(AlbumInfo(<<>>, <<>>), None)
    /\ play_state = None
    /\ duration = 0
    /\ display = None

NextStatus ==
    \/ \E chan \in Channels : QueryRecv(1, chan)
    \/ \E now \in ResolverTimes : QueryRead(1, now)
    \/ \E ok \in BOOLEAN : QueryRespond(1, ok)

SpecStatus == InitStatus /\ [][NextStatus]_vars

\* Progress.  Every event is in channel c1 and no time passes; status
\* queries keep arriving, and the lock serves its queue in order.
\* Step(t) is what task t does once it has been received.
Step(t) ==
    \/ \E ok \in BOOLEAN : AlbumReturn(t, ok)
    \/ \E ok \in BOOLEAN : TracksReturn(t, ok)
    \/ MsgAcquire(t)
    \/ MsgInsert(t)
    \/ StartAcquire(t)
    \/ StartModify(t)
    \/ QueryRead(t, clock)
    \/ \E ok \in BOOLEAN : QueryRespond(t, ok)
    \/ LockWait(t)

NextLive ==
    \/ \E t \in Tasks : MsgRecv(t, <<"URL", "a", "?", "a">>, LP_ROLES, "c1")
    \/ \E t \in Tasks : StartRecv(t, "c1", clock)
    \/ \E t \in Tasks : QueryRecv(t, "c1")
    \/ \E t \in Tasks : QueryNext(t)
    \/ \E t \in Tasks : Step(t)

\* The runtime polls every task that can go on; catalog calls and response
\* deliveries return; the lock grants the guard to the first in its queue
Fairness == \A t \in Tasks : WF_vars(Step(t))

SpecLive == Init /\ [][NextLive]_vars /\ Fairness

\* The formatter on every span of up to MaxSecs seconds, either sign
InitFormat ==
    /\ InitTasks
    /\ clock = 0
    /\ lpinfo = LPInfo(AlbumInfo(<<>>, <<>>), None)
    /\ play_state = None
    /\ duration \in Spans
    /\ display = None

NextFormat == DisplayDuration

SpecFormat == InitFormat /\ [][NextFormat]_vars

----------------------------------------------------------------------------
\* Properties of the registry (specification Spec)

\* The album the catalog holds for the identifier task t fetched
AnnouncedAlbum(t) ==
    AlbumInfo(Unwrap(task[t].id), CatalogTracks(Unwrap(task[t].id)))

Written(t, c) ==
    /\ task[t].kind = "msg"
    /\ task[t].chan = c
    /\ task[t].outcome = "written"

Started(t, c) ==
    /\ task[t].kind = "start"
    /\ task[t].chan = c
    /\ task[t].pc = "done"

\* C1: when the last write to a channel's record is the insert of an
\* announcement, the record is that announcement's album with started = None:
\* nothing of the record it replaced, album or start, remains.
C1_OverwriteResetsStart ==
    \A c \in Channels, t \in Tasks :
        (last_writer[c] = Some(t) /\ task[t].kind = "msg")
            => /\ c \in DOMAIN last_pinged
               /\ last_pinged[c] = LPInfo(AnnouncedAlbum(t), None)

\* C1 witness: album A1 was announced in c, a start signal was applied to
\* its record, then a different album A2 was announced in c.
C1_Witness ==
    \E c \in Channels, t1 \in Tasks, s \in Tasks, t2 \in Tasks :
        /\ Written(t1, c) /\ Written(t2, c)
        /\ task[t1].id # task[t2].id
        /\ Started(s, c) /\ task[s].hit = Some(t1)
        /\ last_writer[c] = Some(t2)
        /\ last_pinged[c] = LPInfo(AnnouncedAlbum(t2), None)

\* C2: the step of a start signal that finds no record for its channel
\* leaves the whole registry as it was: no record is created.
C2_StartWithoutRecordIsNoOp ==
    [][\A t \in Tasks :
          (/\ task[t].kind = "start"
           /\ task[t].pc = "modify"
           /\ task'[t].pc = "done"
           /\ task[t].chan \notin DOMAIN last_pinged)
              => last_pinged' = last_pinged]_vars

\* C2 witness: a start signal found no record for its channel while another
\* channel had one, and the channel is still absent.
C2_Witness ==
    \E t \in Tasks, c \in Channels :
        /\ Started(t, c) /\ task[t].hit = None
        /\ c \notin DOMAIN last_pinged
        /\ DOMAIN last_pinged # {}

\* C3: the step of a start signal that finds a record for its channel sets
\* that record's started to the signal's instant, started before or not, and
\* changes nothing else: not the record's album, not another channel.
C3_StartSetsStarted ==
    [][\A t \in Tasks :
          (/\ task[t].kind = "start"
           /\ task[t].pc = "modify"
           /\ task'[t].pc = "done"
           /\ task[t].chan \in DOMAIN last_pinged)
              => /\ DOMAIN last_pinged' = DOMAIN last_pinged
                 /\ \A c \in DOMAIN last_pinged :
                       last_pinged'[c] =
                          IF c = task[t].chan
                          THEN LPInfo(last_pinged[c].playlist, Some(task[t].now))
                          ELSE last_pinged[c]]_vars

\* C3 witness: two start signals with different instants were applied to the
\* same record, and the record holds the instant of the one applied last.
C3_Witness ==
    \E c \in Channels, s1 \in Tasks, s2 \in Tasks :
        /\ Started(s1, c) /\ Started(s2, c)
        /\ task[s1].hit # None /\ task[s2].hit = task[s1].hit
        /\ task[s1].now # task[s2].now
        /\ last_writer[c] = Some(s2)
        /\ last_pinged[c].started = Some(task[s2].now)

\* C6: a handler whose fetch failed has ended and has written nothing, and
\* every record of the registry holds the complete album of a handler both
\* of whose catalog calls succeeded.
C6_FailedFetchChangesNothing ==
    /\ \A t \in Tasks, c \in Channels :
          (task[t].kind = "msg" /\ task[t].failed # "no")
              => /\ task[t].pc = "done"
                 /\ last_insert[c] # Some(t)
                 /\ last_writer[c] # Some(t)
    /\ \A c \in DOMAIN last_pinged :
          /\ last_insert[c] # None
          /\ last_pinged[c].playlist = AnnouncedAlbum(Unwrap(last_insert[c]))

\* C6 witness: the track listing of an announcement failed in a channel whose
\* record was started, and the record is as it was.
C6_Witness ==
    \E c \in Channels, t1 \in Tasks, s \in Tasks, t2 \in Tasks :
        /\ Written(t1, c)
        /\ Started(s, c) /\ task[s].hit = Some(t1)
        /\ task[t2].kind = "msg" /\ task[t2].chan = c
        /\ task[t2].pc = "done" /\ task[t2].failed = "tracks"
        /\ t2 > s
        /\ last_pinged[c] = LPInfo(AnnouncedAlbum(t1), Some(task[s].now))

\* C7 (the claim as stated): of two announcements of one channel whose
\* handlers have both written, the record holds the album of the one
\* received last.
C7_NewestAnnouncementWins ==
    \A c \in Channels, t1 \in Tasks, t2 \in Tasks :
        (/\ t1 < t2
         /\ Written(t1, c) /\ Written(t2, c)
         /\ \A t3 \in Tasks \ {t1, t2} : ~(task[t3].kind = "msg" /\ task[t3].chan = c))
            => last_pinged[c].playlist = AnnouncedAlbum(t2)

----------------------------------------------------------------------------
\* Properties of the announcement detector (specification SpecDetect)

\* C4: a message that mentions no trusted role is dropped at once: it calls
\* fetch_album_info never and leaves the registry empty as it found it.
C4_UntrustedNeverFetches ==
    \A t \in Tasks :
        (task[t].kind = "msg" /\ task[t].roles \cap LP_ROLES = {})
            => /\ task[t].calls = 0
               /\ task[t].pc = "done"
               /\ DOMAIN last_pinged = {}

\* C4 witness: a message with a link the pattern matches and a role mention
\* that is not trusted has been handled.
C4_Witness ==
    \E t \in Tasks :
        /\ task[t].kind = "msg"
        /\ task[t].roles = {"Other"}
        /\ task[t].text = <<"URL", "a", "?", "a">>
        /\ captures(task[t].text) # None
        /\ task[t].pc = "done"

\* The album links of a text as the specification describes them: the prefix
\* at a word boundary, the identifier i+1..e (a whole alphanumeric run), and
\* then the end of the text, a space, or a query "?" of letters and "=" that
\* ends with a letter before the end of the text or a space.
QueryTail(text, e) ==
    /\ e + 1 <= Len(text)
    /\ text[e + 1] = "?"
    /\ \E k \in (e + 2)..Len(text) :
          /\ \A j \in (e + 2)..k : text[j] \in {"a", "="}
          /\ text[k] = "a"
          /\ k = Len(text) \/ text[k + 1] = " "

AlbumLinks(text) ==
    {ie \in (1..Len(text)) \X (1..Len(text)) :
        LET i == ie[1]
            e == ie[2]
        IN /\ text[i] = "URL"
           /\ Boundary(text, i - 1)
           /\ e > i
           /\ \A j \in (i + 1)..e : Alnum(text[j])
           /\ \/ e = Len(text)
              \/ text[e + 1] = " "
              \/ QueryTail(text, e)}

\* C5 (the claim as stated): a trusted message whose text holds one prefix,
\* in an album link with or without a query, calls fetch_album_info once,
\* with the link's identifier; a trusted message with no prefix calls it
\* never.
C5_OneLinkOneFetch ==
    \A t \in Tasks :
        (task[t].kind = "msg" /\ task[t].roles \cap LP_ROLES # {})
            => LET text == task[t].text
                   prefixes == {i \in 1..Len(text) : text[i] = "URL"}
                   links == AlbumLinks(text)
               IN /\ (Cardinality(prefixes) = 1 /\ links # {})
                        => /\ task[t].calls = 1
                           /\ \E ie \in links :
                                 task[t].id = Some(SubSeq(text, ie[1] + 1, ie[2]))
                  /\ prefixes = {} => task[t].calls = 0

----------------------------------------------------------------------------
\* Properties of the resolver (specification SpecResolver)

RECURSIVE SumDurations(_, _)
\* The total duration of tracks 1..i
SumDurations(tracks, i) ==
    IF i = 0 THEN 0 ELSE tracks[i] + SumDurations(tracks, i - 1)

\* C9: for started <= now the resolver returns Playing{i, p} for the first
\* track i whose cumulative duration exceeds elapsed = now - started, with
\* p = elapsed less the tracks before i and 0 <= p < duration of i; with no
\* such track it returns Finished(elapsed - total duration).
C9_ResolverPosition ==
    (play_state # None /\ lpinfo.started # None /\ Unwrap(lpinfo.started) <= clock)
        => LET tracks == lpinfo.playlist.tracks
               elapsed == clock - Unwrap(lpinfo.started)
               over == {i \in 1..Len(tracks) : SumDurations(tracks, i) > elapsed}
           IN IF over # {}
              THEN LET i == CHOOSE x \in over : \A y \in over : x <= y
                       p == elapsed - SumDurations(tracks, i - 1)
                   IN /\ play_state = Some(Playing(i, p))
                      /\ 0 <= p
                      /\ p < tracks[i]
              ELSE play_state =
                      Some(Finished(elapsed - SumDurations(tracks, Len(tracks))))

\* C9 witness: two tracks of 2, resolved 3 after the start: the second track
\* is playing at position 1.
C9_Witness ==
    /\ lpinfo.playlist.tracks = <<2, 2>>
    /\ lpinfo.started # None
    /\ clock - Unwrap(lpinfo.started) = 3
    /\ play_state = Some(Playing(2, 1))

\* C10: with no start, or a start later than now, the resolver returns
\* NotStarted whatever the tracks.
C10_NotStarted ==
    (/\ play_state # None
     /\ \/ lpinfo.started = None
        \/ Unwrap(lpinfo.started) > clock)
        => play_state = Some(NotStarted)

\* C10 witness: a playlist with tracks whose start is later than now has
\* been resolved.
C10_Witness ==
    /\ lpinfo.started # None
    /\ Unwrap(lpinfo.started) > clock
    /\ lpinfo.playlist.tracks = <<2, 2>>
    /\ play_state = Some(NotStarted)

----------------------------------------------------------------------------
\* C11: for every span of T >= 0 seconds display_duration computes
\* h = T div 3600, m = (T div 60) mod 60, s = T mod 60 and renders "h:mm:ss"
\* when h > 0 and "mm:ss" otherwise; m and s are always two digits in
\* 00..59 and h is an unpadded decimal (0 -> 00:00, 61 -> 01:01,
\* 3661 -> 1:01:01).
TwoDigits(n) == <<Digit(n \div 10), Digit(n % 10)>>

----------------------------------------------------------------------------
\* C12: end to end on one channel: a message mentioning a trusted role with
\* the album link without a query string, handled with a successful fetch,
\* leaves the record {album, started_at: None}; a start signal at T1 then
\* sets started_at to T1, and a status query at T1 + d, d less than the
\* first track's duration, reports track 1 playing at position d.
NoQueryLink == <<"URL", "a", "1">>

C12_EndToEnd ==
    /\ \A m \in Tasks :
        (/\ task[m].kind = "msg"
         /\ task[m].text = NoQueryLink
         /\ MentionsLPRole(task[m].roles)
         /\ task[m].failed = "no"
         /\ task[m].pc = "done")
        => task[m].outcome = "written"
    /\ \A m, s, q \in Tasks :
        (/\ task[m].kind = "msg" /\ task[m].outcome = "written"
         /\ \A o \in Tasks \ {m, s, q} : task[o].kind = "idle"
         /\ task[s].kind = "start" /\ task[s].hit = Some(m)
         /\ task[q].kind = "query" /\ task[q].chan = task[m].chan
         /\ task[q].state # None
         /\ task[q].now >= task[s].now
         /\ task[q].now - task[s].now < Unwrap(task[m].tracks)[1])
        => \/ Unwrap(task[q].state) = NotStarted
           \/ /\ Unwrap(task[q].state) =
                     Playing(1, task[q].now - task[s].now)
              /\ Unwrap(task[q].msg).now_playing =
                    [text |-> "Playing Track", number |-> 1,
                     first |-> display_duration(task[q].now - task[s].now),
                     second |-> display_duration(Unwrap(task[m].tracks)[1])]

----------------------------------------------------------------------------
\* C13: a status query is idempotent: two status queries for the same
\* channel with no registry write between them and the same clock reading
\* build identical messages, and no step of a status query changes the
\* registry.
Answered(q) == task[q].kind = "query" /\ task[q].msg # None

----------------------------------------------------------------------------
\* C14: the announcement handler never holds the registry lock while a
\* catalog call is in flight: it holds no guard before both calls have
\* returned, and it holds the write guard only when all that is left to do
\* is the insert.
C14_NoLockDuringFetch ==
    \A t \in Tasks :
        task[t].kind = "msg" =>
            /\ t \notin readers
            /\ writer = Some(t) <=> task[t].pc = "insert"
            /\ task[t].pc \in {"album", "tracks"} => writer # Some(t)
            /\ writer = Some(t) =>
                    /\ task[t].name # None
                    /\ task[t].tracks # None
                    /\ task[t].failed = "no"

C14_Witness ==
    \E t, u \in Tasks :
        /\ task[t].kind = "msg" /\ writer = Some(t)
        /\ task[u].kind = "msg" /\ task[u].pc \in {"album", "tracks"}

----------------------------------------------------------------------------
\* C15: no task holds the registry lock, shared or exclusive, across a
\* suspension point: a task that is waiting for a catalog call, for the
\* lock or for the delivery of its response holds no guard, so a write is
\* never kept waiting by a response being delivered.
Suspended(t) == task[t].pc \in {"album", "tracks", "lock", "read", "respond"}

C15_NoGuardAcrossAwait ==
    /\ \A t \in Tasks : Suspended(t) => (t \notin readers /\ writer # Some(t))
    /\ \A w, q \in Tasks :
        (task[w].pc = "lock" /\ task[q].pc = "respond") => q \notin readers

----------------------------------------------------------------------------
\* C16: a start signal that races a newer announcement of its channel can
\* be silently lost: an execution is reachable (C16_Witness) in which the
\* start signal is received after the announcement's message, both tasks
\* complete, and the final record has started_at = None.  Whenever that
\* happens the start signal's write came before the announcement's insert:
\* a start signal that found the announcement's record is not lost.
LostStart(m, s) ==
    /\ m < s
    /\ task[m].kind = "msg" /\ task[m].pc = "done"
    /\ task[m].outcome = "written"
    /\ task[s].kind = "start" /\ task[s].pc = "done"
    /\ task[s].chan = task[m].chan
    /\ last_insert[task[m].chan] = Some(m)
    /\ last_pinged[task[m].chan].started = None

C16_LostStartWroteFirst ==
    \A m, s \in Tasks : LostStart(m, s) => task[s].hit # Some(m)

C16_Witness ==
    /\ \E m, s \in Tasks : LostStart(m, s)
    /\ \A t \in Tasks : task[t].pc \in {"idle", "done"}
    /\ writer = None

----------------------------------------------------------------------------
\* C17: for every stored record, one with a track of negative duration
\* included, a status query completes and every duration it renders (the
\* playlist total, the position, the track's duration, the time since the
\* end) is non-negative: digits only, "mm:ss" or "h:mm:ss" with the minute
\* and second fields in 00..59.
IsDigit(c) == c \in {"0", "1", "2", "3", "4", "5", "6", "7", "8", "9"}

IsField(c, d) == c \in {"0", "1", "2", "3", "4", "5"} /\ IsDigit(d)

NonNegativeRendering(str) ==
    LET n == Len(str)
    IN  /\ n >= 5
        /\ IsField(str[n - 1], str[n]) /\ str[n - 2] = ":"
        /\ IsField(str[n - 4], str[n - 3])
        /\ n > 5 => /\ n >= 7
                    /\ str[n - 5] = ":"
                    /\ \A i \in 1..(n - 6) : IsDigit(str[i])

C17_RenderingsClamped ==
    \A q \in Tasks :
        (Answered(q) /\ Unwrap(task[q].msg).text = "Ongoing Listening Party")
        => LET m == Unwrap(task[q].msg)
           IN  /\ NonNegativeRendering(m.total)
               /\ m.now_playing.first # <<>> =>
                      NonNegativeRendering(m.now_playing.first)
               /\ m.now_playing.second # <<>> =>
                      NonNegativeRendering(m.now_playing.second)

----------------------------------------------------------------------------
\* C18 (as stated): a record's started_at is never earlier than the instant
\* at which that record was written into the registry, whatever the order
\* of the start signal's clock read, its wait for the lock and the
\* announcement's write.
C18_StartNotBeforeWrite ==
    \A c \in DOMAIN last_pinged, m \in Tasks :
        (last_insert[c] = Some(m) /\ last_pinged[c].started # None)
        => Unwrap(last_pinged[c].started) >= task[m].now

\* C18 (amended): a record's started_at is the instant read by a start
\* signal whose registry write came after the record's insert; a start
\* signal that wrote before the insert never ends up as the record's
\* started_at.  The instant itself can be earlier than the insert.
C18_StartWrittenAfterInsert ==
    \A c \in DOMAIN last_pinged :
        last_pinged[c].started # None
        => \E s \in Tasks :
            /\ task[s].kind = "start"
            /\ last_writer[c] = Some(s)
            /\ task[s].hit = last_insert[c]
            /\ last_pinged[c].started = Some(task[s].now)

C18_Witness ==
    \E c \in DOMAIN last_pinged, m, s \in Tasks :
        /\ last_insert[c] = Some(m)
        /\ last_writer[c] = Some(s)
        /\ task[s].hit = Some(m)
        /\ last_pinged[c].started = Some(task[s].now)
        /\ task[s].now < task[m].now

----------------------------------------------------------------------------
\* C19: the clock never goes back, so in every reachable state every stored
\* started_at is at most the current clock value, and a status query that
\* finds a started record never takes the started > now branch: it
\* resolves the record to Playing or Finished.
C19_StartNotInFuture ==
    /\ [](\A c \in DOMAIN last_pinged :
            last_pinged[c].started # None
            => Unwrap(last_pinged[c].started) <= clock)
    /\ [][clock' >= clock]_vars
    /\ [][\A q \in Tasks :
            (/\ task[q].pc = "read" /\ task'[q].pc = "respond"
             /\ ReadsClock(Get(last_pinged, task[q].chan)))
            => /\ Unwrap(last_pinged[task[q].chan].started) <= task'[q].now
               /\ Unwrap(task'[q].state).tag \in {"Playing", "Finished"}]_vars

C19_Witness ==
    \E q \in Tasks :
        /\ Answered(q)
        /\ task[q].chan \in DOMAIN last_pinged
        /\ last_pinged[task[q].chan].started = Some(0)
        /\ task[q].state = Some(Playing(1, 1))
        /\ clock = 1

----------------------------------------------------------------------------
\* C20: with a lock that serves its queue in order, and catalog calls and
\* response deliveries that return, every announcement handler, start
\* signal and status query that has been received completes: in no
\* reachable state are the received tasks stuck, and whatever is in flight,
\* a start signal waiting for the write lock included, gets through even
\* while status queries keep arriving.
InFlight(t) == task[t].pc \notin {"idle", "done"}

C20_Progress ==
    /\ []((\E t \in Tasks : InFlight(t)) => \E t \in Tasks : ENABLED <<Step(t)>>_vars)
    /\ \A t \in Tasks : InFlight(t) ~> (task[t].pc = "done")

C20_Witness ==
    \E s, q \in Tasks :
        /\ task[s].kind = "start" /\ task[s].pc = "lock"
        /\ waiters # <<>> /\ Head(waiters) = s
        /\ task[q].kind = "query" /\ q \in readers
        /\ \E r \in Tasks : task[r].kind = "query" /\ task[r].pc = "read"
                            /\ \E i \in 1..Len(waiters) : waiters[i] = r

============================================================================
